---- MODULE Spec2Model ----
(***************************************************************************)
(* pyaptly: the Command entity, the SystemStateReader oracle, the          *)
(* fixed-point scheduler Command.order_commands and the "snapshot ... all" *)
(* batch runner of src/pyaptly/__init__.py.                                *)
(*                                                                         *)
(* Six specifications:                                                     *)
(*   Spec      one run of main() -> snapshot(cfg, all): the state reader   *)
(*             is refreshed, the batch's commands are built with           *)
(*             require/provide, order_commands runs statement by           *)
(*             statement, and the returned order is executed.              *)
(*   SpecExec  a client of the Command API calling execute() on built      *)
(*             commands any number of times, in any order.                 *)
(*   SpecBuild a client calling require()/provide() with every kind.       *)
(*   SpecDefault  order_commands called without an oracle argument.        *)
(*   SpecTwice order_commands called again on the list it returned.        *)
(*   SpecGpg   state.read() over a keyring listing with key identifiers.   *)
(***************************************************************************)
EXTENDS Integers, Sequences, FiniteSets, TLC

\* ------------------------------------------------------------------ bounds
\* Number of entries of the list handed to order_commands.
MaxCmds == 3
\* Total number of successful require/provide calls made while building.
MaxDeps == 4
\* Number of execute() calls made by the API client of SpecExec.
MaxCalls == 4
\* Longest key identifier a keyring listing reports.
MaxKeyLen == 16
\* Most records in a keyring listing.
MaxKeys == 2

\* --------------------------------------------------------------- constants
\* Python's None: Command._finished before execution, and the entry
\* cmd_snapshot_create returns for a snapshot the state reader knows.
None == -1

\* The status subprocess.check_call returns when it does not raise.
StatusOK == 0

\* A non-zero exit status of the external process.
StatusFail == 1

\* Command objects, named by their position in the caller's list.
Cmds == 1..MaxCmds

\* Kinds Command.require accepts.
ReqKindsAsProvide == {"snapshot", "mirror", "repo", "publish"}

ReqKinds == {"snapshot", "mirror", "repo", "any"}

\* Kinds Command.provide accepts.
ProvKinds == {"snapshot", "mirror", "repo", "publish"}

\* Kinds the builder of this model passes to require/provide ("gpg_key" is
\* accepted by neither).
BuildKinds == {"snapshot", "mirror", "repo", "gpg_key"}

\* Identifiers used with each kind.
Idents(kind) ==
    CASE kind = "snapshot" -> {"s1"}
      [] kind = "mirror" -> {"m1"}
      [] kind = "repo" -> {"r1"}
      [] OTHER -> {"k1"}

\* Names the aptly listings can report.
MirrorNames == {"m1"}
SnapshotNames == {"s1"}

VARIABLES
    keyring,            \* the keyring tool's listing: records <<type, key identifier>>
    gpg_keys,           \* SystemStateReader.gpg_keys
    mirrors,            \* SystemStateReader.mirrors
    snapshots,          \* SystemStateReader.snapshots
    has_dependency_cb,  \* order_commands: the has_dependency_cb argument
    requires,           \* Command._requires, per command
    provides,           \* Command._provides, per command
    finished,           \* Command._finished, per command
    commands,           \* the list snapshot() builds and hands to order_commands
    pc,                 \* position of the run
    ocommands,          \* order_commands: the filtered local `commands`
    have_requirements,  \* order_commands: have_requirements
    scheduled_cmdids,   \* order_commands: scheduled_cmdids
    something_changed,  \* order_commands: something_changed
    idx,                \* order_commands: position of `for cmd in commands`
    scans,              \* number of times the while body was entered
    planned_commands,   \* order_commands: planned_commands (the return value)
    unresolved,         \* order_commands: unresolved
    ordered,            \* how the order_commands call ended: "no" (not yet), "returned", "raised"
    error,              \* the exception that ended the run, "none" if none
    runIdx,             \* snapshot(): position of `for cmd in <returned order>`
    invoked,            \* external invocations so far: <<command, status>>
    retval,             \* what the last execute() call returned (None if it raised)
    ncalls              \* number of execute() calls made on each command

readerVars == <<gpg_keys, mirrors, snapshots>>
callVars == <<commands, has_dependency_cb, keyring>>
cmdVars == <<requires, provides>>
loopVars == <<ocommands, have_requirements, scheduled_cmdids, something_changed,
              idx, scans, planned_commands, unresolved>>
orderVars == <<loopVars, ordered>>
execVars == <<finished, invoked, retval, ncalls>>
vars == <<keyring, gpg_keys, has_dependency_cb, mirrors, snapshots, requires, provides, finished, commands, pc,
          ocommands, have_requirements, scheduled_cmdids, something_changed,
          idx, scans, planned_commands, unresolved, ordered, error, runIdx,
          invoked, retval, ncalls>>

\* ------------------------------------------------------------------ helpers
Range(s) == {s[i] : i \in 1..Len(s)}

RECURSIVE SumDeps(_)
SumDeps(n) ==
    IF n = 0 THEN 0
    ELSE Cardinality(requires[n]) + Cardinality(provides[n]) + SumDeps(n - 1)

\* All the orders in which a Python set can be iterated.
Orderings(S) ==
    {f \in [1..Cardinality(S) -> S] : \A i, j \in 1..Cardinality(S) : i # j => f[i] # f[j]}

\* The lists snapshot() can build: entry i is the Command built for the i-th
\* configured snapshot, or None. The None entries are taken to come first:
\* the filter keeps the order of the others, and commands are interchangeable.
InputLists ==
    {l \in [Cmds -> Cmds \cup {None}] :
        /\ \A i \in Cmds : l[i] \in {i, None}
        /\ \A i, j \in Cmds : (i < j /\ l[j] = None) => l[i] = None}

\* -------------------------------------------------------------------- Init
InitCommon ==
    /\ gpg_keys = {}
    /\ mirrors = {}
    /\ snapshots = {}
    /\ requires = [c \in Cmds |-> {}]
    /\ provides = [c \in Cmds |-> {}]
    /\ finished = [c \in Cmds |-> None]
    /\ ocommands = <<>>
    /\ have_requirements = {}
    /\ scheduled_cmdids = <<>>
    /\ something_changed = FALSE
    /\ idx = 0
    /\ scans = 0
    /\ planned_commands = <<>>
    /\ unresolved = <<>>
    /\ ordered = "no"
    /\ error = "none"
    /\ runIdx = 1
    /\ invoked = <<>>
    /\ retval = None
    /\ ncalls = [c \in Cmds |-> 0]

\* The run of main(): snapshot() passes state.has_dependency (line 292); the
\* trusted keyring of this run holds no key.
Init ==
    /\ InitCommon
    /\ keyring = <<>>
    /\ has_dependency_cb = "has_dependency"
    /\ commands \in InputLists
    /\ pc = "start"

\* ------------------------------------------------------ SystemStateReader
\* `key_short = key[8:]`: the identifier without its first 8 characters.
KeyShort(key) == SubSeq(key, 9, Len(key))

\* read_gpg: every "pub" record of the listing adds its key identifier
\* (field 4) and key[8:] to the set.
ReadGpg(listing) ==
    UNION {{listing[i][2], KeyShort(listing[i][2])} :
              i \in {j \in 1..Len(listing) : listing[j][1] = "pub"}}

\* state.read(): read_gpg, read_mirror, read_snapshot in turn, each replacing
\* its set from a listing; a listing that ends with a non-zero status
\* (call_output raises) ends the run with the later sets still empty.
ReadState ==
    /\ pc = "start"
    /\ \E failed \in {"none", "gpg", "mirror", "snapshot"} :
          /\ gpg_keys' = IF failed = "gpg" THEN {} ELSE ReadGpg(keyring)
          /\ IF failed \in {"gpg", "mirror"}
             THEN mirrors' = {}
             ELSE mirrors' \in SUBSET MirrorNames
          /\ IF failed = "none"
             THEN /\ snapshots' \in SUBSET SnapshotNames
                  /\ pc' = "build"
                  /\ UNCHANGED error
             ELSE /\ snapshots' = {}
                  /\ pc' = "read_failed"
                  /\ error' = "CalledProcessError"
    /\ UNCHANGED <<cmdVars, orderVars, execVars, callVars, runIdx>>

\* has_dependency: "True"/"False" as answered, "ValueError" when it raises.
HasDependencyInverted(dependency) ==
    LET type_ == dependency[1]
        name == dependency[2]
    IN  IF type_ = "mirror" THEN (IF name \notin mirrors THEN "True" ELSE "False")
        ELSE IF type_ = "snapshot" THEN (IF name \notin snapshots THEN "True" ELSE "False")
        ELSE IF type_ = "gpg_key" THEN (IF name \notin gpg_keys THEN "True" ELSE "False")
        ELSE "ValueError"

HasDependency(dependency) ==
    LET type_ == dependency[1]
        name == dependency[2]
    IN  IF type_ = "mirror" THEN (IF name \in mirrors THEN "True" ELSE "False")
        ELSE IF type_ = "snapshot" THEN (IF name \in snapshots THEN "True" ELSE "False")
        ELSE IF type_ = "gpg_key" THEN (IF name \in gpg_keys THEN "True" ELSE "False")
        ELSE "ValueError"

\* `has_dependency_cb(req)`: the callback order_commands was given. The
\* default, `lambda: False`, takes no argument: calling it with req raises
\* TypeError.
Callback(req) ==
    IF has_dependency_cb = "default" THEN "TypeError" ELSE HasDependency(req)

\* ------------------------------------------------------------------ Command
\* Number of successful require/provide calls so far.
DepsBuilt == SumDeps(MaxCmds)

\* cmd.require(type_, identifier)
Require(c, type_, identifier) ==
    /\ pc = "build"
    /\ commands[c] # None
    /\ DepsBuilt < MaxDeps
    /\ IF type_ \in ReqKinds
       THEN /\ requires' = [requires EXCEPT ![c] = @ \cup {<<type_, identifier>>}]
            /\ UNCHANGED <<pc, error>>
       ELSE /\ pc' = "build_failed"
            /\ error' = "AssertionError"
            /\ UNCHANGED requires
    /\ UNCHANGED <<readerVars, provides, orderVars, execVars, callVars, runIdx>>

\* cmd.provide(type_, identifier)
Provide(c, type_, identifier) ==
    /\ pc = "build"
    /\ commands[c] # None
    /\ DepsBuilt < MaxDeps
    /\ IF type_ \in ProvKinds
       THEN /\ provides' = [provides EXCEPT ![c] = @ \cup {<<type_, identifier>>}]
            /\ UNCHANGED <<pc, error>>
       ELSE /\ pc' = "build_failed"
            /\ error' = "AssertionError"
            /\ UNCHANGED provides
    /\ UNCHANGED <<readerVars, requires, orderVars, execVars, callVars, runIdx>>

\* `if self._finished is not None`
MemoizedNever(cmd) == FALSE

Memoized(cmd) == finished[cmd] # None

\* `self._finished = subprocess.check_call(self.cmd)`
StoreResultDropped(cmd, status) == finished

StoreResult(cmd, status) == [finished EXCEPT ![cmd] = status]

\* cmd.execute(), the external process ending with `status` if it is invoked.
Execute(cmd, status) ==
    /\ ncalls' = [ncalls EXCEPT ![cmd] = @ + 1]
    /\ IF Memoized(cmd)
       THEN /\ retval' = finished[cmd]
            /\ error' = "none"
            /\ UNCHANGED <<finished, invoked>>
       ELSE /\ invoked' = Append(invoked, <<cmd, status>>)
            /\ IF status = StatusOK
               THEN /\ finished' = StoreResult(cmd, status)
                    /\ retval' = finished'[cmd]
                    /\ error' = "none"
               ELSE /\ retval' = None
                    /\ error' = "CalledProcessError"
                    /\ UNCHANGED finished

\* ----------------------------------------------------------- order_commands
\* `commands = [c for c in commands if c.__class__ == Command]`
FilterNothing(list) == list

FilterCommands(list) == SelectSeq(list, LAMBDA c : c # None)

\* The requirement loop of one command, its set iterated in the order `reqs`:
\* "True" (can_schedule), "False", or the exception the callback raises.
RECURSIVE CanScheduleFirstOnly(_, _)
CanScheduleFirstOnly(reqs, have) ==
    IF reqs = <<>> THEN "True"
    ELSE IF Head(reqs) \in have THEN "True"
    ELSE Callback(Head(reqs))

RECURSIVE CanSchedule(_, _)
CanSchedule(reqs, have) ==
    IF reqs = <<>> THEN "True"
    ELSE IF Head(reqs) \in have THEN CanSchedule(Tail(reqs), have)
    ELSE LET answer == Callback(Head(reqs))
         IN  IF answer = "True" THEN CanSchedule(Tail(reqs), have)
             ELSE answer

\* `have_requirements = have_requirements.union(cmd._provides)`
NewHaveOverwrite(have, cmd) == provides[cmd]

NewHaveStale(have, cmd) == have

NewHave(have, cmd) == have \cup provides[cmd]

\* `if cmdid in scheduled_cmdids: continue`
AlreadyScheduledNever(cmd) == FALSE

AlreadyScheduled(cmd) == cmd \in Range(scheduled_cmdids)

\* The list the caller holds after the filter at line 67: the comprehension
\* builds a new list and rebinds the local name only.
CallerListFiltered(list) == FilterCommands(list)

CallerList(list) == list

\* snapshot() calls order_commands: the filter and the loop's initial values
\* (commands_by_id is the identity here; provided_by_id and required_by_id are
\* filled but never read, and are left out).
CallOrder ==
    /\ pc = "build"
    /\ ocommands' = FilterCommands(commands)
    /\ have_requirements' = {}
    /\ scheduled_cmdids' = <<>>
    /\ something_changed' = TRUE
    /\ commands' = CallerList(commands)
    /\ pc' = "loop"
    /\ UNCHANGED <<readerVars, cmdVars, execVars, has_dependency_cb, keyring,
                   idx, scans, planned_commands, unresolved, ordered, error, runIdx>>

\* `while something_changed:` is true: a scan begins.
WhileEnter ==
    /\ pc = "loop"
    /\ something_changed
    /\ something_changed' = FALSE
    /\ scans' = scans + 1
    /\ idx' = 1
    /\ pc' = IF Len(ocommands) = 0 THEN "loop" ELSE "scan"
    /\ UNCHANGED <<readerVars, cmdVars, execVars, callVars, ocommands,
                   have_requirements, scheduled_cmdids, planned_commands,
                   unresolved, ordered, error, runIdx>>

\* `while something_changed:` is false: the loop ends.
WhileExit ==
    /\ pc = "loop"
    /\ ~something_changed
    /\ pc' = "plan"
    /\ UNCHANGED <<readerVars, cmdVars, execVars, callVars, orderVars, error, runIdx>>

\* One iteration of `for cmd in commands:`.
ScanStep ==
    /\ pc = "scan"
    /\ idx \in 1..Len(ocommands)
    /\ LET cmd == ocommands[idx]
           advance == /\ idx' = idx + 1
                      /\ pc' = IF idx = Len(ocommands) THEN "loop" ELSE "scan"
       IN  IF AlreadyScheduled(cmd)
           THEN /\ advance
                /\ UNCHANGED <<have_requirements, scheduled_cmdids,
                               something_changed, ordered, error>>
           ELSE \E reqs \in Orderings(requires[cmd]) :
                  LET can_schedule == CanSchedule(reqs, have_requirements)
                  IN  IF can_schedule \notin {"True", "False"}
                      THEN /\ pc' = "order_failed"
                           /\ ordered' = "raised"
                           /\ error' = IF can_schedule = "ValueError"
                                       THEN "ValueError: Unknown dependency to resolve"
                                       ELSE can_schedule
                           /\ UNCHANGED <<have_requirements, scheduled_cmdids,
                                          something_changed, idx>>
                      ELSE IF can_schedule = "True"
                      THEN /\ scheduled_cmdids' = Append(scheduled_cmdids, cmd)
                           /\ have_requirements' = NewHave(have_requirements, cmd)
                           /\ something_changed' = TRUE
                           /\ advance
                           /\ UNCHANGED <<ordered, error>>
                      ELSE /\ advance
                           /\ UNCHANGED <<have_requirements, scheduled_cmdids,
                                          something_changed, ordered, error>>
    /\ UNCHANGED <<readerVars, cmdVars, execVars, callVars, ocommands, scans,
                   planned_commands, unresolved, runIdx>>

\* `planned_commands = [commands_by_id[cmdid] for cmdid in scheduled_cmdids]`
PlannedCommands(sched) == sched

\* `unresolved = [... for cmdid in scheduled_cmdids if cmdid not in scheduled_cmdids]`
Unresolved(sched) == SelectSeq(sched, LAMBDA cmdid : cmdid \notin Range(sched))

\* `assert incoming_set == scheduled_set`
VerifySubset(planned, cmds) == Range(planned) \subseteq Range(cmds)

VerifySkipped(planned, cmds) == TRUE

Verify(planned, cmds) == Range(cmds) = Range(planned)

\* The statements after the loop: the plan, the unresolved check, the final
\* assertion, the return to snapshot().
Finish ==
    /\ pc = "plan"
    /\ planned_commands' = PlannedCommands(scheduled_cmdids)
    /\ unresolved' = Unresolved(scheduled_cmdids)
    /\ IF Len(unresolved') > 0
       THEN /\ pc' = "order_failed"
            /\ ordered' = "raised"
            /\ error' = "ValueError: Commands with unresolved deps"
       ELSE IF ~Verify(planned_commands', ocommands)
       THEN /\ pc' = "order_failed"
            /\ ordered' = "raised"
            /\ error' = "AssertionError"
       ELSE /\ pc' = "run"
            /\ ordered' = "returned"
            /\ UNCHANGED error
    /\ UNCHANGED <<readerVars, cmdVars, execVars, callVars, ocommands,
                   have_requirements, scheduled_cmdids, something_changed,
                   idx, scans, runIdx>>

\* ------------------------------------------------------------- batch runner
\* Whether snapshot()'s `for cmd in Command.order_commands(...)` has a list to
\* walk: only a call that returned gives it one.
RunEnabledAfterFailure == pc \in {"run", "order_failed"}

RunEnabled == pc = "run"

\* Where the batch stands after cmd.execute(): an exception leaves the loop.
AfterExecuteSwallow(raised) == "run"

AfterExecute(raised) == IF raised THEN "run_failed" ELSE "run"

\* One iteration of `for cmd in ...: cmd.execute()`.
RunStep ==
    /\ RunEnabled
    /\ runIdx \in 1..Len(planned_commands)
    /\ \E status \in {StatusOK, StatusFail} :
          /\ Execute(planned_commands[runIdx], status)
          /\ pc' = AfterExecute(error' # "none")
          /\ runIdx' = runIdx + 1
    /\ UNCHANGED <<readerVars, cmdVars, orderVars, callVars>>

\* The returned order is exhausted.
RunEnd ==
    /\ RunEnabled
    /\ runIdx > Len(planned_commands)
    /\ pc' = "done"
    /\ UNCHANGED <<readerVars, cmdVars, orderVars, execVars, callVars, error, runIdx>>

Next ==
    \/ ReadState
    \/ \E c \in Cmds, type_ \in BuildKinds : \E identifier \in Idents(type_) :
          Require(c, type_, identifier)
    \/ \E c \in Cmds, type_ \in BuildKinds : \E identifier \in Idents(type_) :
          Provide(c, type_, identifier)
    \/ CallOrder
    \/ WhileEnter
    \/ WhileExit
    \/ ScanStep
    \/ Finish
    \/ RunStep
    \/ RunEnd

Spec == Init /\ [][Next]_vars

\* ----------------------------------------------------- Command API client
InitExec ==
    /\ InitCommon
    /\ keyring = <<>>
    /\ has_dependency_cb = "has_dependency"
    /\ commands = [i \in Cmds |-> i]
    /\ pc = "api"

RECURSIVE SumCalls(_)
SumCalls(n) == IF n = 0 THEN 0 ELSE ncalls[n] + SumCalls(n - 1)

\* Number of execute() calls made so far.
CallsMade == SumCalls(MaxCmds)

\* A client calls cmd.execute().
ExecuteCall(c) ==
    /\ pc = "api"
    /\ CallsMade < MaxCalls
    /\ \E status \in {StatusOK, StatusFail} : Execute(c, status)
    /\ UNCHANGED <<readerVars, cmdVars, orderVars, callVars, pc, runIdx>>

NextExec == \E c \in Cmds : ExecuteCall(c)

SpecExec == InitExec /\ [][NextExec]_vars

\* ---------------------------------------------- Command dependency builder
\* Kinds a caller may pass to require/provide: the five the two methods name
\* and one neither accepts.
AllKinds == {"snapshot", "mirror", "repo", "any", "publish", "gpg_key"}

\* A caller holding two Command objects, calling require and provide on them.
InitBuild ==
    /\ InitCommon
    /\ keyring = <<>>
    /\ has_dependency_cb = "has_dependency"
    /\ commands = [i \in Cmds |-> IF i <= 2 THEN i ELSE None]
    /\ pc = "build"

NextBuild ==
    \/ \E c \in Cmds, type_ \in AllKinds : \E identifier \in Idents(type_) :
          Require(c, type_, identifier)
    \/ \E c \in Cmds, type_ \in AllKinds : \E identifier \in Idents(type_) :
          Provide(c, type_, identifier)

SpecBuild == InitBuild /\ [][NextBuild]_vars

\* ------------------------------------------- order_commands on its output
\* A caller hands the list a call returned to order_commands again: the new
\* call starts from its own initial locals; planned_commands keeps naming the
\* list the caller holds until the new call assigns its own (line 117).
CallOrderAgain ==
    /\ pc = "run"
    /\ commands' = planned_commands
    /\ ocommands' = FilterCommands(planned_commands)
    /\ have_requirements' = {}
    /\ scheduled_cmdids' = <<>>
    /\ something_changed' = TRUE
    /\ idx' = 0
    /\ scans' = 0
    /\ unresolved' = <<>>
    /\ ordered' = "no"
    /\ pc' = "loop"
    /\ UNCHANGED <<readerVars, cmdVars, execVars, has_dependency_cb, keyring,
                   planned_commands, error, runIdx>>

NextTwice ==
    \/ ReadState
    \/ \E c \in Cmds, type_ \in BuildKinds : \E identifier \in Idents(type_) :
          Require(c, type_, identifier)
    \/ \E c \in Cmds, type_ \in BuildKinds : \E identifier \in Idents(type_) :
          Provide(c, type_, identifier)
    \/ CallOrder
    \/ WhileEnter
    \/ WhileExit
    \/ ScanStep
    \/ Finish
    \/ CallOrderAgain

SpecTwice == Init /\ [][NextTwice]_vars

\* ------------------------------------- order_commands without an oracle
\* A caller builds Commands and calls order_commands(commands), leaving
\* has_dependency_cb at its default.
InitDefault ==
    /\ InitCommon
    /\ keyring = <<>>
    /\ has_dependency_cb = "default"
    /\ commands \in InputLists
    /\ pc = "build"

NextDefault ==
    \/ \E c \in Cmds, type_ \in BuildKinds : \E identifier \in Idents(type_) :
          Require(c, type_, identifier)
    \/ \E c \in Cmds, type_ \in BuildKinds : \E identifier \in Idents(type_) :
          Provide(c, type_, identifier)
    \/ CallOrder
    \/ WhileEnter
    \/ WhileExit
    \/ ScanStep
    \/ Finish

SpecDefault == InitDefault /\ [][NextDefault]_vars

\* ------------------------------------------------------- keyring refresh
\* The hexadecimal digits, in the order key identifiers are cut from.
HexDigits == <<"0", "1", "2", "3", "4", "5", "6", "7",
               "8", "9", "A", "B", "C", "D", "E", "F">>

\* A key identifier: len digits of the repeating digit string, from offset.
KeyId(offset, len) == [i \in 1..len |-> HexDigits[((offset + i - 1) % 16) + 1]]

\* Key identifiers (field 4 of a record) of at least 8 characters.
KeyIds == {KeyId(offset, len) : offset \in {0, 5}, len \in 8..MaxKeyLen}

\* Records of the listing: <<field 0, field 4>>.
KeyRecords == {"pub", "sub"} \X KeyIds

\* The listings of one up to MaxKeys records.
KeyListings == UNION {[1..n -> KeyRecords] : n \in 1..MaxKeys}

\* A SystemStateReader before read(), the keyring holding some keys.
InitGpg ==
    /\ InitCommon
    /\ keyring \in KeyListings
    /\ has_dependency_cb = "has_dependency"
    /\ commands = [i \in Cmds |-> i]
    /\ pc = "start"

NextGpg == ReadState

SpecGpg == InitGpg /\ [][NextGpg]_vars

\* ------------------------------------------------------- claim vocabulary
\* These read the recorded state only, never the operators of the code above.

\* order_commands returned its list to snapshot().
Returned == ordered = "returned"

\* The Command entries of the list handed to order_commands.
InputCmds == Range(commands) \ {None}

\* The input list without its None entries, in input order.
InputOrder == SelectSeq(commands, LAMBDA c : c # None)

\* The oracle answers true for tag t.
OracleTrue(t) ==
    \/ t[1] = "mirror" /\ t[2] \in mirrors
    \/ t[1] = "snapshot" /\ t[2] \in snapshots
    \/ t[1] = "gpg_key" /\ t[2] \in gpg_keys

\* The oracle answers false for tag t (for other kinds it raises).
OracleFalse(t) ==
    \/ t[1] = "mirror" /\ t[2] \notin mirrors
    \/ t[1] = "snapshot" /\ t[2] \notin snapshots
    \/ t[1] = "gpg_key" /\ t[2] \notin gpg_keys

\* Tag t is provided by a command at a position of `list` before i.
ProvidedBefore(list, i, t) == \E j \in 1..(i - 1) : t \in provides[list[j]]

\* `list` satisfies the ordering condition.
ValidOrder(list) ==
    \A i \in 1..Len(list) : \A t \in requires[list[i]] :
        ProvidedBefore(list, i, t) \/ OracleTrue(t)

\* Some permutation of the input's commands satisfies the ordering condition.
ExistsValidOrder == \E list \in Orderings(InputCmds) : ValidOrder(list)

\* The invocations of command c, in order.
InvocationsOf(c) == SelectSeq(invoked, LAMBDA e : e[1] = c)

\* Command c has been invoked with status zero.
Succeeded(c) == <<c, StatusOK>> \in Range(invoked)

UnknownDependency == "ValueError: Unknown dependency to resolve"
UnresolvedDeps == "ValueError: Commands with unresolved deps"

\* ------------------------------------------------------------------ claims

\* C1: whenever order_commands returns a list, each tag a command of the list
\* requires is provided by a command at a strictly earlier position of the
\* list, or is answered true by the oracle.
C1_RequirementsMet == Returned => ValidOrder(planned_commands)

\* C1 witness: a returned list in which one requirement is met by an earlier
\* command only and another by the oracle only.
C1_Witness ==
    /\ Returned
    /\ \E i \in 1..Len(planned_commands) : \E t, u \in requires[planned_commands[i]] :
          /\ ~OracleTrue(t)
          /\ ProvidedBefore(planned_commands, i, t)
          /\ OracleTrue(u)
          /\ \A c \in Cmds : u \notin provides[c]

\* C2: for an input list of Commands (no other entries), a returned list is a
\* permutation of the input: same length, every input command exactly once.
C2_Permutation ==
    (Returned /\ \A i \in Cmds : commands[i] # None) =>
        /\ Len(planned_commands) = Len(commands)
        /\ \A c \in Range(commands) :
              Cardinality({i \in 1..Len(planned_commands) : planned_commands[i] = c}) = 1

\* C2 witness: a list of MaxCmds commands returned in another order than given.
C2_Witness ==
    /\ Returned
    /\ \A i \in Cmds : commands[i] # None
    /\ Len(planned_commands) = MaxCmds
    /\ planned_commands # commands

\* C3: once order_commands has ended with an input command unscheduled it has
\* ended in a failure, never with a returned list; and the loop does not run
\* on: it is entered at most once more than there are commands.
C3_UnscheduledFails ==
    /\ (ordered # "no" /\ InputCmds \ Range(scheduled_cmdids) # {}) =>
          (ordered = "raised" /\ error # "none")
    /\ scans <= Len(ocommands) + 1

\* C3 witness: two commands, each requiring the other's sole provided tag,
\* the oracle answering false for both; the loop has ended and the call failed.
C3_Witness ==
    /\ ordered = "raised"
    /\ pc = "order_failed"
    /\ error # UnknownDependency
    /\ \E a, b \in InputCmds : \E t, u \in have_requirements \cup requires[a] \cup requires[b] :
          /\ a # b /\ t # u
          /\ provides[a] = {t} /\ requires[b] = {t}
          /\ provides[b] = {u} /\ requires[a] = {u}
          /\ OracleFalse(t) /\ OracleFalse(u)
          /\ a \notin Range(scheduled_cmdids) /\ b \notin Range(scheduled_cmdids)

\* C4: order_commands fails only when no valid ordering exists: if the oracle
\* answered every query and some permutation of the input's commands satisfies
\* the ordering condition, the call returns.
C4_FailsOnlyIfNoOrder ==
    (ordered = "raised" /\ error # UnknownDependency) => ~ExistsValidOrder

\* C4 witness: an input that is not itself in a valid order, whose MaxCmds
\* commands form a chain scheduled one per scan, is returned.
C4_Witness ==
    /\ Returned
    /\ ~ValidOrder(InputOrder)
    /\ Len(planned_commands) = MaxCmds
    /\ scans > MaxCmds

\* C5 as claimed: in a returned list, for any tag that a command P provides,
\* that another command D requires and that the oracle answers false for, P is
\* strictly before D.
C5_EveryProviderFirst ==
    Returned =>
        \A i, j \in 1..Len(planned_commands) :
            \A t \in provides[planned_commands[i]] \cap requires[planned_commands[j]] :
                (i # j /\ OracleFalse(t)) => i < j

\* C5 amended: in a returned list, for any tag that some command provides,
\* that a command D requires and that the oracle answers false for, the first
\* command of the list that provides the tag is strictly before D.
C5_FirstProviderFirst ==
    Returned =>
        \A j \in 1..Len(planned_commands) : \A t \in requires[planned_commands[j]] :
            (OracleFalse(t) /\ \E c \in Range(planned_commands) : t \in provides[c]) =>
                LET first == CHOOSE i \in 1..Len(planned_commands) :
                                 /\ t \in provides[planned_commands[i]]
                                 /\ \A k \in 1..(i - 1) : t \notin provides[planned_commands[k]]
                IN  first < j

\* C5 witness: input [B, A], A providing the tag B requires, oracle false:
\* the returned list has A before B.
C5_Witness ==
    /\ Returned
    /\ \E i, j \in 1..Len(InputOrder) : \E t \in provides[InputOrder[j]] \cap requires[InputOrder[i]] :
          /\ i < j
          /\ OracleFalse(t)
          /\ \E k, l \in 1..Len(planned_commands) :
                k < l /\ planned_commands[k] = InputOrder[j] /\ planned_commands[l] = InputOrder[i]

\* C6 as claimed: when order_commands fails because commands remain
\* unscheduled at the fixed point, the error is the ValueError "Commands with
\* unresolved deps" and its payload lists exactly the unscheduled commands.
C6_UnresolvedListed ==
    (ordered = "raised" /\ error # UnknownDependency) =>
        /\ error = UnresolvedDeps
        /\ Range(unresolved) = InputCmds \ Range(scheduled_cmdids)

\* C7: in a batch run no command is invoked unless order_commands has
\* returned; if it fails, nothing has been executed.
C7_NothingRunsBeforeOrder == invoked # <<>> => Returned

\* C7 witness: order_commands failed after scheduling part of the batch, and
\* nothing has been invoked.
C7_Witness ==
    /\ ordered = "raised"
    /\ scheduled_cmdids # <<>>
    /\ invoked = <<>>

\* C8: the invocations are a prefix of the returned order, one per command in
\* that order, and every invocation but the last ended with status zero: after
\* a failure nothing more is invoked and the batch has stopped.
C8_PrefixOfOrder ==
    /\ Len(invoked) <= Len(planned_commands)
    /\ \A i \in 1..Len(invoked) :
          /\ invoked[i][1] = planned_commands[i]
          /\ i < Len(invoked) => invoked[i][2] = StatusOK
    /\ (invoked # <<>> /\ invoked[Len(invoked)][2] # StatusOK) => pc = "run_failed"

\* C8 witness: the batch stopped at a failing command after an earlier one had
\* succeeded, leaving a later one unexecuted.
C8_Witness ==
    /\ pc = "run_failed"
    /\ Len(invoked) >= 2
    /\ Len(invoked) < Len(planned_commands)

\* C9: once a command has been invoked with status zero, a further execute
\* call on it invokes nothing and returns the memoized result.
C9_IdempotentAfterSuccess ==
    [][\A c \in Cmds :
          (Succeeded(c) /\ ncalls'[c] = ncalls[c] + 1) =>
              /\ invoked' = invoked
              /\ finished' = finished
              /\ retval' = StatusOK
              /\ error' = "none"]_vars

\* C9 witness: three execute calls on a command, one invocation, which succeeded.
C9_Witness ==
    \E c \in Cmds :
        /\ ncalls[c] >= 3
        /\ InvocationsOf(c) = <<<<c, StatusOK>>>>
        /\ finished[c] = StatusOK

\* C10 as claimed: over any sequence of execute calls, failed ones included,
\* a command's argv is invoked at most once.
C10_InvokedOnce == \A c \in Cmds : Len(InvocationsOf(c)) <= 1

\* C10 amended: an execute call invokes the external argv exactly when no
\* earlier invocation of the command ended with status zero: never again after
\* a success, and again after a failure.
C10_InvokedUntilSuccess ==
    [][\A c \in Cmds :
          ncalls'[c] = ncalls[c] + 1 =>
              (Len(invoked') = Len(invoked) + 1 <=> ~Succeeded(c))]_vars

\* C10 witness: a command invoked twice, the first invocation failing and the
\* second succeeding, then called once more without an invocation.
C10_Witness ==
    \E c \in Cmds :
        /\ InvocationsOf(c) = <<<<c, StatusFail>>, <<c, StatusOK>>>>
        /\ ncalls[c] >= 3

\* Command c needs nothing the other commands provide: its requires set is
\* empty, or the oracle answers true for each tag it requires.
Eligible(c) == \A t \in requires[c] : OracleTrue(t)

\* The first scan of the input is over (completed or left by an exception).
FirstScanOver == scans >= 2 \/ ordered # "no" \/ (scans = 1 /\ pc = "loop")

\* C11: a command whose requires set is empty, or whose every required tag is
\* answered true by the oracle, is scheduled during the first scan: once the
\* first scan is over it is in the schedule, so that whatever a later scan
\* appends comes after it.
C11_EligibleInFirstScan ==
    FirstScanOver => \A c \in Range(ocommands) : Eligible(c) => c \in Range(scheduled_cmdids)

\* The sets and the result of every command but c are as they were.
OthersUntouched(c) ==
    /\ \A d \in Cmds \ {c} : requires'[d] = requires[d] /\ provides'[d] = provides[d]
    /\ finished' = finished

\* C12: require with a kind outside {snapshot, mirror, repo, any} and provide
\* with a kind outside {snapshot, mirror, repo, publish} fail and leave both
\* sets of the command unchanged; with a permitted kind they add exactly the
\* tag (kind, identifier) to the respective set and leave the other set and
\* the result as they were.
C12_KindsValidated ==
    [][\A c \in Cmds, kind \in AllKinds : \A identifier \in Idents(kind) :
        /\ Require(c, kind, identifier) =>
              /\ OthersUntouched(c)
              /\ provides'[c] = provides[c]
              /\ IF kind \in {"snapshot", "mirror", "repo", "any"}
                 THEN /\ requires'[c] = requires[c] \cup {<<kind, identifier>>}
                      /\ error' = "none"
                 ELSE /\ requires'[c] = requires[c]
                      /\ error' = "AssertionError"
        /\ Provide(c, kind, identifier) =>
              /\ OthersUntouched(c)
              /\ requires'[c] = requires[c]
              /\ IF kind \in {"snapshot", "mirror", "repo", "publish"}
                 THEN /\ provides'[c] = provides[c] \cup {<<kind, identifier>>}
                      /\ error' = "none"
                 ELSE /\ provides'[c] = provides[c]
                      /\ error' = "AssertionError"
      ]_vars

\* C12 witness: a command holds a required tag of kind `any` and a provided
\* tag of kind `publish`, and a call with a kind the method rejects has failed.
C12_Witness ==
    /\ pc = "build_failed"
    /\ error = "AssertionError"
    /\ \E c \in Cmds : <<"any", "k1">> \in requires[c] /\ <<"publish", "k1">> \in provides[c]

\* C13: with commands built through require and the SystemStateReader oracle,
\* the oracle is never queried with a tag of a kind it rejects, so the run never
\* ends in the oracle's 'Unknown dependency to resolve' usage error.
C13_OracleNeverRejects == ordered = "raised" => error # UnknownDependency

\* C14: an input already in a valid order is scheduled whole in the first scan
\* (the satisfied set grows within the scan) and is returned unchanged: the
\* call does not fail and returns the input's commands in input order.
\* Consequently order_commands applied to a list it returned returns that list.
C14_ValidInputUnchanged ==
    /\ []((FirstScanOver /\ ValidOrder(InputOrder)) =>
            /\ scheduled_cmdids = InputOrder
            /\ ordered # "raised"
            /\ Returned => (planned_commands = InputOrder /\ scans <= 2))
    /\ [][(pc = "plan" /\ commands = planned_commands) =>
            (ordered' = "returned" /\ planned_commands' = planned_commands)]_vars

\* C14 witness: a second call has returned the list it was given, which the
\* first call had put in another order than its own input, the second command
\* of the list requiring a tag that only the first provides.
C14_Witness ==
    /\ Returned
    /\ commands = planned_commands
    /\ Len(commands) = MaxCmds
    /\ \E i \in Cmds : commands[i] # i
    /\ \E t \in requires[commands[2]] : t \in provides[commands[1]] /\ ~OracleTrue(t)

\* No command occurs twice in the schedule.
ScheduledAtMostOnce ==
    \A i, j \in 1..Len(scheduled_cmdids) :
        i # j => scheduled_cmdids[i] # scheduled_cmdids[j]

\* C15: for an input of n commands the loop is entered at most n+1 times;
\* every scan but the last schedules at least one command not yet scheduled
\* (so when scan k has begun at least k-1 commands are scheduled), and no
\* command is scheduled twice.
C15_ScansBounded ==
    /\ scans <= Len(InputOrder) + 1
    /\ Len(scheduled_cmdids) >= scans - 1
    /\ ScheduledAtMostOnce
    /\ Range(scheduled_cmdids) \subseteq InputCmds

\* C15 witness: MaxCmds commands chained against the input order, one
\* scheduled per scan, the loop left after MaxCmds + 1 scans.
C15_Witness ==
    /\ pc = "plan"
    /\ Len(ocommands) = MaxCmds
    /\ scans = MaxCmds + 1
    /\ Len(scheduled_cmdids) = MaxCmds

\* C16: order_commands is pure with respect to its arguments: from its call
\* to its return or failure no command's requires set, provides set or
\* memoized result changes, the caller's list keeps its content and order, the
\* oracle's mirror, snapshot and key sets stay as they were, and no external
\* invocation occurs.
C16_OrderIsPure ==
    [][(pc \in {"loop", "scan", "plan"} \/ pc' \in {"loop", "scan", "plan"}) =>
          /\ requires' = requires
          /\ provides' = provides
          /\ finished' = finished
          /\ commands' = commands
          /\ mirrors' = mirrors /\ snapshots' = snapshots /\ gpg_keys' = gpg_keys
          /\ invoked' = invoked
      ]_vars

\* C16 witness: a call has returned a list that differs from the caller's
\* list in length (an entry was left out) and in order, the caller's list
\* still holding its None entry, commands with tags, and nothing invoked.
C16_Witness ==
    /\ Returned
    /\ pc = "run"
    /\ invoked = <<>>
    /\ commands[1] = None
    /\ planned_commands = <<3, 2>>
    /\ requires[2] # {}
    /\ provides[3] # {}

\* The last 8 characters of a key identifier.
Last8(key) == SubSeq(key, Len(key) - 7, Len(key))

\* C17: after the keyring refresh, for every public key the listing reports
\* the oracle answers true for (gpg_key, k) both for k the full key identifier
\* and for k its last 8 characters, whatever the identifier's length (>= 8).
C17_FullAndLast8 ==
    (pc = "build" /\ error = "none") =>
        \A i \in 1..Len(keyring) :
            keyring[i][1] = "pub" =>
                /\ OracleTrue(<<"gpg_key", keyring[i][2]>>)
                /\ OracleTrue(<<"gpg_key", Last8(keyring[i][2])>>)

\* The number of positions of `list` that hold c.
Occurrences(list, c) == Cardinality({i \in 1..Len(list) : list[i] = c})

\* C18: entries of the input that are not Commands (None) are ignored: they
\* never enter the scheduler's list or its output, a failure is always about
\* a Command left unscheduled with a requirement or asked about to the oracle,
\* the output holds each Command entry of the input exactly once and nothing
\* else, and nothing is ever executed for a None entry.
C18_NonCommandsIgnored ==
    /\ None \notin Range(ocommands)
    /\ None \notin Range(scheduled_cmdids)
    /\ Returned =>
          /\ Len(planned_commands) = Cardinality(InputCmds)
          /\ \A c \in InputCmds : Occurrences(planned_commands, c) = 1
    /\ ordered = "raised" =>
          \E c \in InputCmds \ Range(scheduled_cmdids) : requires[c] # {}
    /\ \A i \in 1..Len(invoked) : invoked[i][1] \in InputCmds

\* C18 witness: the first entry of the input is None, the other entries are
\* Commands; the call returned them all and the batch has executed them.
C18_Witness ==
    /\ pc = "done"
    /\ commands[1] = None
    /\ Cardinality(InputCmds) = MaxCmds - 1
    /\ Len(planned_commands) = MaxCmds - 1
    /\ Len(invoked) = MaxCmds - 1

\* `list` satisfies the ordering condition through its commands' provides
\* alone, as with an oracle that answers false for every tag.
ValidOrderByProvides(list) ==
    \A i \in 1..Len(list) : \A t \in requires[list[i]] : ProvidedBefore(list, i, t)

\* C19: called without an oracle argument, order_commands behaves as with an
\* oracle answering false for every tag: a returned list is ordered by the
\* commands' provides alone, the call returns whenever some permutation of the
\* input is so ordered, and when it fails it fails with the resolution
\* failure (the fixed point left a command unscheduled), never another error.
C19_DefaultAnswersFalse ==
    /\ Returned => ValidOrderByProvides(planned_commands)
    /\ ordered = "raised" =>
          /\ error \in {UnresolvedDeps, "AssertionError"}
          /\ \A list \in Orderings(InputCmds) : ~ValidOrderByProvides(list)

====
